---- MODULE Spec2Model ----
(***************************************************************************)
(* Personal assistant agent: credential manager (tools.py), capability     *)
(* functions (tools.py, reached through agent.py) and the Slack dispatcher *)
(* (slack_bot.py).  Each handler invocation is a process; its position in  *)
(* the code is pc[h].  Every external call (Slack say/ack, the language    *)
(* model query, Google API calls, file I/O) may succeed or raise.          *)
(***************************************************************************)
EXTENDS Integers, Sequences, FiniteSets, TLC

VARIABLES
    pc,         \* pc[h]: position of handler h in the code
    ev,         \* ev[h]: the inbound event / call arguments h is processing
    trace,      \* trace[h]: the outbound calls h has attempted, in order
    exc,        \* exc[h]: the exception last raised in h ("None" if none)
    escaped,    \* escaped[h]: an exception left the handler to the host
    local,      \* local[h]: clean_text / command_text once computed
    cap,        \* cap[h]: the capability function h is inside ("None" if none)
    creds,      \* creds[h]: local variable creds of get_google_credentials
    loaded,     \* loaded[h]: what h read from the token file (history)
    result,     \* result[h]: the mapping returned by the capability function
    emails,     \* emails[h]: local list emails of read_emails
    todo,       \* todo[h]: messages of the list call not yet fetched
    tokenFile,  \* tokenFile[p]: content of the token file p
    descriptor, \* credentials.json exists
    nextTok     \* serial of the next credential the authorization server issues

vars == <<pc, ev, trace, exc, escaped, local, cap, creds, loaded, result, emails, todo,
          tokenFile, descriptor, nextTok>>

(***************************************************************************)
(* Bounds                                                                  *)
(***************************************************************************)
NumHandlers == 2
MaxPieces == 2
MaxItems == 2
MaxTok == 3

Handlers == 1..NumHandlers

NoneVal == "None"

(***************************************************************************)
(* Text: a string is a sequence of one-character strings.                  *)
(***************************************************************************)
Sp == <<" ">>
Mention1 == <<"<", "@", "U", "1", ">">>
LowerMention == <<"<", "@", "u", ">">>
Hi == <<"h", "i">>
EmailsLc == <<"e", "m", "a", "i", "l", "s">>
EmailsUc == <<"E", "M", "A", "I", "L", "S">>
CalendarLc == <<"c", "a", "l", "e", "n", "d", "a", "r">>
Please == <<" ", "p", "l", "s">>

UpperChars == <<"A", "C", "E", "I", "L", "M", "S", "U">>
LowerChars == <<"a", "c", "e", "i", "l", "m", "s", "u">>
DigitChars == {"1", "2"}
Whitespace == {" "}

RECURSIVE PieceTexts(_, _)
PieceTexts(P, n) ==
    IF n = 0 THEN {<<>>}
    ELSE LET prev == PieceTexts(P, n - 1)
         IN  prev \cup {t \o p : t \in prev, p \in P}

IsUpper(c) == \E i \in 1..Len(UpperChars) : UpperChars[i] = c

\* str.lower() on one character
LowerChar(c) ==
    IF IsUpper(c)
    THEN LowerChars[CHOOSE i \in 1..Len(UpperChars) : UpperChars[i] = c]
    ELSE c

\* str.lower()
Lower(s) == [i \in 1..Len(s) |-> LowerChar(s[i])]

RECURSIVE LStrip(_)
LStrip(s) ==
    IF s # <<>> /\ Head(s) \in Whitespace THEN LStrip(Tail(s)) ELSE s

RECURSIVE RStrip(_)
RStrip(s) ==
    IF s # <<>> /\ s[Len(s)] \in Whitespace
    THEN RStrip(SubSeq(s, 1, Len(s) - 1))
    ELSE s

\* str.strip()
Strip(s) == RStrip(LStrip(s))

\* the character class [A-Z0-9]
InClass(c) == IsUpper(c) \/ c \in DigitChars

\* end of the run of [A-Z0-9] characters that starts at position j
RECURSIVE ClassRunEnd(_, _)
ClassRunEnd(s, j) ==
    IF j <= Len(s) /\ InClass(s[j]) THEN ClassRunEnd(s, j + 1) ELSE j

\* position of the closing '>' of a match of <@[A-Z0-9]+> starting at i, or 0
MatchEnd(s, i) ==
    IF i + 3 <= Len(s) /\ s[i] = "<" /\ s[i + 1] = "@"
    THEN LET e == ClassRunEnd(s, i + 2)
         IN  IF e > i + 2 /\ e <= Len(s) /\ s[e] = ">" THEN e ELSE 0
    ELSE 0

\* re.sub(r'<@[A-Z0-9]+>', '', s) from position i: every match is removed
RECURSIVE ReSubFrom(_, _)
ReSubFrom(s, i) ==
    IF i > Len(s) THEN <<>>
    ELSE LET e == MatchEnd(s, i)
         IN  IF e > 0 THEN ReSubFrom(s, e + 1)
             ELSE <<s[i]>> \o ReSubFrom(s, i + 1)

\* clean_text = re.sub(r'<@[A-Z0-9]+>', '', text).strip()
CleanText(text) == Strip(ReSubFrom(text, 1))

\* command_text = command.get("text", "").strip()
CommandText(text) == Strip(text)

(***************************************************************************)
(* Inbound events and direct calls                                         *)
(***************************************************************************)
MentionTexts == PieceTexts({Mention1, LowerMention, Sp, Hi}, MaxPieces)
MessageTexts == PieceTexts({Sp, Hi}, MaxPieces)
CommandTexts == PieceTexts({Sp, EmailsUc, CalendarLc, Please}, MaxPieces)

MentionEvents ==
    [kind : {"app_mention"}, text : MentionTexts, subtype : {NoneVal},
     bot_id : {NoneVal}, channel_type : {"channel"}, ts : {"t1"}]

MessageEvents ==
    [kind : {"message"}, text : MessageTexts, subtype : {NoneVal, "message_changed"},
     bot_id : {NoneVal, "B1"}, channel_type : {"im", "channel"}, ts : {"t1"}]

CommandEvents ==
    [kind : {"command"}, text : CommandTexts, subtype : {NoneVal},
     bot_id : {NoneVal}, channel_type : {NoneVal}, ts : {NoneVal}]

\* a direct call of PersonalAssistantAgent.schedule_event
ScheduleCalls ==
    [kind : {"schedule_event"}, text : {<<>>}, subtype : {NoneVal},
     bot_id : {NoneVal}, channel_type : {NoneVal}, ts : {NoneVal}]

AllEvents == MentionEvents \cup MessageEvents \cup CommandEvents \cup ScheduleCalls

\* the slash command whose processing acquires the Gmail credential
EmailsCommands == {e \in CommandEvents : e.text = EmailsUc}

NoEvent ==
    [kind |-> NoneVal, text |-> <<>>, subtype |-> NoneVal, bot_id |-> NoneVal,
     channel_type |-> NoneVal, ts |-> NoneVal]

(***************************************************************************)
(* Outbound calls, as recorded in trace                                    *)
(***************************************************************************)
Call(op, arg, ok) ==
    [op |-> op, msg |-> NoneVal, arg |-> arg, thread |-> NoneVal, ok |-> ok]

\* say(text=..., thread_ts=...): msg names the text, arg its variable part
Say(msg, arg, thread, ok) ==
    [op |-> "say", msg |-> msg, arg |-> arg, thread |-> thread, ok |-> ok]

\* logger.error(f"...: {str(e)}")
Log(e) ==
    [op |-> "logger.error", msg |-> NoneVal, arg |-> <<e>>, thread |-> NoneVal, ok |-> TRUE]

Upd(f, h, v) == [f EXCEPT ![h] = v]

(***************************************************************************)
(* Credentials and token files                                             *)
(***************************************************************************)
TokenPaths == {"gmail_token.pickle", "calendar_token.pickle"}

\* creds = None
NoneCreds == [tok |-> 0, token |-> FALSE, expired |-> FALSE, refresh_token |-> FALSE]

IsNone(c) == c.tok = 0

\* get_google_credentials has not reached the load yet
NotLoaded == [tok |-> -1, token |-> FALSE, expired |-> FALSE, refresh_token |-> FALSE]

\* Credentials.valid: an access token that has not expired
Valid(c) == c.token /\ ~c.expired

Absent == [exists |-> FALSE, complete |-> FALSE, data |-> NoneCreds]

\* opened for writing (truncated), nothing written yet
Truncated == [exists |-> TRUE, complete |-> FALSE, data |-> NoneCreds]

Holding(c) == [exists |-> TRUE, complete |-> TRUE, data |-> c]

InitialCreds ==
    { [tok |-> 1, token |-> TRUE, expired |-> FALSE, refresh_token |-> TRUE],
      [tok |-> 1, token |-> TRUE, expired |-> TRUE, refresh_token |-> TRUE],
      [tok |-> 1, token |-> TRUE, expired |-> TRUE, refresh_token |-> FALSE],
      [tok |-> 1, token |-> FALSE, expired |-> FALSE, refresh_token |-> TRUE] }

InitialFiles == {Absent} \cup {Holding(c) : c \in InitialCreds}

\* a credential just issued by the authorization server
Issued(n, rt) == [tok |-> n, token |-> TRUE, expired |-> FALSE, refresh_token |-> rt]

NoResult == [status |-> NoneVal]

Init ==
    /\ pc = [h \in Handlers |-> "idle"]
    /\ ev = [h \in Handlers |-> NoEvent]
    /\ trace = [h \in Handlers |-> <<>>]
    /\ exc = [h \in Handlers |-> NoneVal]
    /\ escaped = [h \in Handlers |-> FALSE]
    /\ local = [h \in Handlers |-> <<>>]
    /\ cap = [h \in Handlers |-> NoneVal]
    /\ creds = [h \in Handlers |-> NoneCreds]
    /\ loaded = [h \in Handlers |-> NotLoaded]
    /\ result = [h \in Handlers |-> NoResult]
    /\ emails = [h \in Handlers |-> <<>>]
    /\ todo = [h \in Handlers |-> 0]
    /\ tokenFile \in {[p \in TokenPaths |-> f] : f \in InitialFiles}
    /\ descriptor \in BOOLEAN
    /\ nextTok = 2

(***************************************************************************)
(* Dispatcher (slack_bot.py)                                               *)
(***************************************************************************)
Push(h, entries) == trace' = Upd(trace, h, trace[h] \o entries)

\* the listener the host invokes for an event of this kind
EntryPc(kind) ==
    CASE kind = "app_mention" -> "m_body"
      [] kind = "message" -> "msg_filter"
      [] kind = "command" -> "c_ack"
      [] kind = "schedule_event" -> "gc_load"

\* the host runtime hands an event of Evs to the first idle handler thread
Receive(h, Evs) ==
    /\ pc[h] = "idle"
    /\ \A g \in Handlers : g < h => pc[g] # "idle"
    /\ \E e \in Evs :
        /\ ev' = Upd(ev, h, e)
        /\ pc' = Upd(pc, h, EntryPc(e.kind))
        /\ cap' = Upd(cap, h, IF e.kind = "schedule_event"
                              THEN "create_calendar_event" ELSE NoneVal)
    /\ UNCHANGED <<trace, exc, escaped, local, creds, loaded, result, emails, todo,
                   tokenFile, descriptor, nextTok>>

\* an outbound Slack / language-model call that returns (ok) or raises e
Outbound(h, entry, ok, okPc, e, failPc) ==
    /\ Push(h, <<entry>>)
    /\ pc' = Upd(pc, h, IF ok THEN okPc ELSE failPc)
    /\ exc' = Upd(exc, h, IF ok THEN exc[h] ELSE e)

\* _handle_mention_async up to the first say
MentionBody(h) ==
    /\ pc[h] = "m_body"
    /\ LET clean_text == CleanText(ev[h].text)
       IN  /\ local' = Upd(local, h, clean_text)
           /\ \E ok \in BOOLEAN :
                IF clean_text = <<>>
                THEN Outbound(h, Say("greeting", <<>>, NoneVal, ok), ok, "done",
                              "SlackApiError", "m_except")
                ELSE Outbound(h, Say("processing", <<>>, ev[h].ts, ok), ok, "m_query",
                              "SlackApiError", "m_except")
    /\ UNCHANGED <<ev, escaped, cap, creds, loaded, result, emails, todo,
                   tokenFile, descriptor, nextTok>>

\* response = await self.agent.simple_query(clean_text)
MentionQuery(h) ==
    /\ pc[h] = "m_query"
    /\ \E ok \in BOOLEAN :
        Outbound(h, Call("simple_query", local[h], ok), ok, "m_reply",
                 "QueryError", "m_except")
    /\ UNCHANGED <<ev, escaped, local, cap, creds, loaded, result, emails, todo,
                   tokenFile, descriptor, nextTok>>

\* mutant: the response is said without thread_ts
MentionReplyUnthreaded(h) ==
    /\ pc[h] = "m_reply"
    /\ \E ok \in BOOLEAN :
        Outbound(h, Say("response", local[h], NoneVal, ok), ok, "done",
                 "SlackApiError", "m_except")
    /\ UNCHANGED <<ev, escaped, local, cap, creds, loaded, result, emails, todo,
                   tokenFile, descriptor, nextTok>>

\* say(text=response, thread_ts=event.get("ts"))
MentionReply(h) ==
    /\ pc[h] = "m_reply"
    /\ \E ok \in BOOLEAN :
        Outbound(h, Say("response", local[h], ev[h].ts, ok), ok, "done",
                 "SlackApiError", "m_except")
    /\ UNCHANGED <<ev, escaped, local, cap, creds, loaded, result, emails, todo,
                   tokenFile, descriptor, nextTok>>

\* a handler's except branch: log, then say the apology; a say that raises
\* here is inside no try block
ExceptBranch(h, thread) ==
    \E ok \in BOOLEAN :
        /\ Push(h, <<Log(exc[h]), Say("apology", <<exc[h]>>, thread, ok)>>)
        /\ pc' = Upd(pc, h, "done")
        /\ exc' = Upd(exc, h, IF ok THEN exc[h] ELSE "SlackApiError")
        /\ escaped' = Upd(escaped, h, ~ok)

MentionExcept(h) ==
    /\ pc[h] = "m_except"
    /\ ExceptBranch(h, ev[h].ts)
    /\ UNCHANGED <<ev, local, cap, creds, loaded, result, emails, todo,
                   tokenFile, descriptor, nextTok>>

\* mutant: the listener forgets the bot_id test
IgnoredBySubtypeOnly(e) == e.subtype # NoneVal

\* handle_message: if event.get("subtype") or event.get("bot_id"): return
IgnoredByListener(e) == e.subtype # NoneVal \/ e.bot_id # NoneVal

\* _handle_message_async: if event.get("channel_type") != "im": return
NotDirect(e) == e.channel_type # "im"

\* handle_message and _handle_message_async up to the query
HandleMessage(h) ==
    /\ pc[h] = "msg_filter"
    /\ IF IgnoredByListener(ev[h]) \/ NotDirect(ev[h]) \/ ev[h].text = <<>>
       THEN /\ pc' = Upd(pc, h, "done")
            /\ UNCHANGED local
       ELSE /\ pc' = Upd(pc, h, "msg_query")
            /\ local' = Upd(local, h, ev[h].text)
    /\ UNCHANGED <<ev, trace, exc, escaped, cap, creds, loaded, result, emails, todo,
                   tokenFile, descriptor, nextTok>>

MessageQuery(h) ==
    /\ pc[h] = "msg_query"
    /\ \E ok \in BOOLEAN :
        Outbound(h, Call("simple_query", local[h], ok), ok, "msg_reply",
                 "QueryError", "msg_except")
    /\ UNCHANGED <<ev, escaped, local, cap, creds, loaded, result, emails, todo,
                   tokenFile, descriptor, nextTok>>

\* say(response)
MessageReply(h) ==
    /\ pc[h] = "msg_reply"
    /\ \E ok \in BOOLEAN :
        Outbound(h, Say("response", local[h], NoneVal, ok), ok, "done",
                 "SlackApiError", "msg_except")
    /\ UNCHANGED <<ev, escaped, local, cap, creds, loaded, result, emails, todo,
                   tokenFile, descriptor, nextTok>>

MessageExcept(h) ==
    /\ pc[h] = "msg_except"
    /\ ExceptBranch(h, NoneVal)
    /\ UNCHANGED <<ev, local, cap, creds, loaded, result, emails, todo,
                   tokenFile, descriptor, nextTok>>

\* mutant: the listener goes straight to asyncio.run, ack() is forgotten
CommandAckForgotten(h) ==
    /\ pc[h] = "c_ack"
    /\ pc' = Upd(pc, h, "c_body")
    /\ UNCHANGED <<ev, trace, exc, escaped, local, cap, creds, loaded, result, emails, todo,
                   tokenFile, descriptor, nextTok>>

\* handle_assistant_command: ack() is outside every try block
CommandAck(h) ==
    /\ pc[h] = "c_ack"
    /\ \E ok \in BOOLEAN :
        /\ Push(h, <<Call("ack", <<>>, ok)>>)
        /\ pc' = Upd(pc, h, IF ok THEN "c_body" ELSE "done")
        /\ exc' = Upd(exc, h, IF ok THEN exc[h] ELSE "SlackApiError")
        /\ escaped' = Upd(escaped, h, ~ok)
    /\ UNCHANGED <<ev, local, cap, creds, loaded, result, emails, todo,
                   tokenFile, descriptor, nextTok>>

\* mutant: the subcommands are compared without .lower()
RouteCaseSensitive(command_text) ==
    IF command_text = <<>> THEN "help"
    ELSE IF command_text = EmailsLc THEN "emails"
    ELSE IF command_text = CalendarLc THEN "calendar"
    ELSE "query"

\* the branch of _handle_command_async that command_text selects
Route(command_text) ==
    IF command_text = <<>> THEN "help"
    ELSE IF Lower(command_text) = EmailsLc THEN "emails"
    ELSE IF Lower(command_text) = CalendarLc THEN "calendar"
    ELSE "query"

\* _handle_command_async from the parse to the first call of the branch
CommandBody(h) ==
    /\ pc[h] = "c_body"
    /\ LET command_text == CommandText(ev[h].text)
           route == Route(command_text)
       IN  /\ local' = Upd(local, h, command_text)
           /\ CASE route = "help" ->
                    /\ \E ok \in BOOLEAN :
                        Outbound(h, Say("help", <<>>, NoneVal, ok), ok, "done",
                                 "SlackApiError", "c_except")
                    /\ UNCHANGED cap
                [] route = "emails" ->
                    /\ Push(h, <<Call("read_recent_emails", <<"5", "is:unread">>, TRUE)>>)
                    /\ pc' = Upd(pc, h, "gc_load")
                    /\ cap' = Upd(cap, h, "read_emails")
                    /\ UNCHANGED exc
                [] route = "calendar" ->
                    /\ Push(h, <<Call("get_calendar_events", <<"5">>, TRUE)>>)
                    /\ pc' = Upd(pc, h, "gc_load")
                    /\ cap' = Upd(cap, h, "list_calendar_events")
                    /\ UNCHANGED exc
                [] route = "query" ->
                    /\ pc' = Upd(pc, h, "c_query")
                    /\ UNCHANGED <<trace, exc, cap>>
    /\ UNCHANGED <<ev, escaped, creds, loaded, result, emails, todo,
                   tokenFile, descriptor, nextTok>>

\* response = await self.agent.simple_query(command_text)
CommandQuery(h) ==
    /\ pc[h] = "c_query"
    /\ \E ok \in BOOLEAN :
        Outbound(h, Call("simple_query", local[h], ok), ok, "c_reply",
                 "QueryError", "c_except")
    /\ UNCHANGED <<ev, escaped, local, cap, creds, loaded, result, emails, todo,
                   tokenFile, descriptor, nextTok>>

\* say(response)
CommandReply(h) ==
    /\ pc[h] = "c_reply"
    /\ \E ok \in BOOLEAN :
        Outbound(h, Say("response", local[h], NoneVal, ok), ok, "done",
                 "SlackApiError", "c_except")
    /\ UNCHANGED <<ev, escaped, local, cap, creds, loaded, result, emails, todo,
                   tokenFile, descriptor, nextTok>>

\* mutant: the count test is dropped, a successful empty result is rendered
\* as a list
RenderedIgnoringCount(c, r) ==
    IF r.status = "success"
    THEN IF c = "read_emails"
         THEN [msg |-> "email_list",
               arg |-> [i \in 1..Len(r.emails) |->
                            <<r.emails[i].subject, r.emails[i].from>>]]
         ELSE [msg |-> "event_list",
               arg |-> [i \in 1..Len(r.events) |->
                            <<r.events[i].summary, r.events[i].start>>]]
    ELSE IF c = "read_emails"
         THEN [msg |-> "no_emails", arg |-> <<>>]
         ELSE [msg |-> "no_events", arg |-> <<>>]

\* the text said for the result of read_recent_emails / get_calendar_events
Rendered(c, r) ==
    IF r.status = "success" /\ r.count > 0
    THEN IF c = "read_emails"
         THEN [msg |-> "email_list",
               arg |-> [i \in 1..Len(r.emails) |->
                            <<r.emails[i].subject, r.emails[i].from>>]]
         ELSE [msg |-> "event_list",
               arg |-> [i \in 1..Len(r.events) |->
                            <<r.events[i].summary, r.events[i].start>>]]
    ELSE IF c = "read_emails"
         THEN [msg |-> "no_emails", arg |-> <<>>]
         ELSE [msg |-> "no_events", arg |-> <<>>]

\* the say of the emails / calendar branch
CommandRender(h) ==
    /\ pc[h] = "c_render"
    /\ LET text == Rendered(cap[h], result[h])
       IN  \E ok \in BOOLEAN :
            Outbound(h, Say(text.msg, text.arg, NoneVal, ok), ok, "done",
                     "SlackApiError", "c_except")
    /\ UNCHANGED <<ev, escaped, local, cap, creds, loaded, result, emails, todo,
                   tokenFile, descriptor, nextTok>>

CommandExcept(h) ==
    /\ pc[h] = "c_except"
    /\ ExceptBranch(h, NoneVal)
    /\ UNCHANGED <<ev, local, cap, creds, loaded, result, emails, todo,
                   tokenFile, descriptor, nextTok>>

\* the listener has returned to the host; the thread is free again
Finish(h) ==
    /\ pc[h] = "done"
    /\ pc' = Upd(pc, h, "idle")
    /\ ev' = Upd(ev, h, NoEvent)
    /\ trace' = Upd(trace, h, <<>>)
    /\ exc' = Upd(exc, h, NoneVal)
    /\ escaped' = Upd(escaped, h, FALSE)
    /\ local' = Upd(local, h, <<>>)
    /\ cap' = Upd(cap, h, NoneVal)
    /\ creds' = Upd(creds, h, NoneCreds)
    /\ loaded' = Upd(loaded, h, NotLoaded)
    /\ result' = Upd(result, h, NoResult)
    /\ emails' = Upd(emails, h, <<>>)
    /\ todo' = Upd(todo, h, 0)
    /\ UNCHANGED <<tokenFile, descriptor, nextTok>>

(***************************************************************************)
(* Credential manager and capability functions (tools.py)                  *)
(***************************************************************************)
\* the token_file argument each capability function passes
TokenPath(c) ==
    IF c = "read_emails" THEN "gmail_token.pickle" ELSE "calendar_token.pickle"

\* an exception raised inside the try block of a capability function
RaiseInCap(h, e) ==
    /\ exc' = Upd(exc, h, e)
    /\ pc' = Upd(pc, h, "cap_except")

\* if not creds or not creds.valid
NeedsNew(c) == IsNone(c) \/ ~Valid(c)

\* mutant: the refresh_token test is dropped
CanRefreshAnyExpired(c) == ~IsNone(c) /\ c.expired

\* if creds and creds.expired and creds.refresh_token
CanRefresh(c) == ~IsNone(c) /\ c.expired /\ c.refresh_token

\* where get_google_credentials goes once creds is loaded
AfterLoad(c) ==
    IF ~NeedsNew(c) THEN "cap_build"
    ELSE IF CanRefresh(c) THEN "gc_refresh"
    ELSE "gc_flow"

\* what creds.valid / creds.expired see for the pickled credential d: a token
\* that had not expired when it was written may have expired by now
AsLoaded(d) ==
    {d} \cup (IF Valid(d) THEN {[d EXCEPT !.expired = TRUE]} ELSE {})

\* get_google_credentials: load the persisted credential and pick the branch
GcLoad(h) ==
    /\ pc[h] = "gc_load"
    /\ LET f == tokenFile[TokenPath(cap[h])]
       IN  IF ~f.exists
           THEN /\ creds' = Upd(creds, h, NoneCreds)
                /\ loaded' = Upd(loaded, h, NoneCreds)
                /\ pc' = Upd(pc, h, AfterLoad(NoneCreds))
                /\ UNCHANGED <<exc, trace>>
           ELSE IF ~f.complete
           THEN \* pickle.load on a file with no complete pickle in it
                /\ RaiseInCap(h, "EOFError")
                /\ Push(h, <<Call("pickle.load", <<>>, FALSE)>>)
                /\ UNCHANGED <<creds, loaded>>
           ELSE \E c \in AsLoaded(f.data) :
                /\ creds' = Upd(creds, h, c)
                /\ loaded' = Upd(loaded, h, c)
                /\ pc' = Upd(pc, h, AfterLoad(c))
                /\ Push(h, <<Call("pickle.load", <<>>, TRUE)>>)
                /\ UNCHANGED exc
    /\ UNCHANGED <<ev, escaped, local, cap, result, emails, todo,
                   tokenFile, descriptor, nextTok>>

\* mutant: the save is reached only from the interactive flow, so a refreshed
\* credential is returned without being written
GcRefreshUnsaved(h) ==
    /\ pc[h] = "gc_refresh"
    /\ \E ok \in BOOLEAN :
        /\ Push(h, <<Call("refresh", <<>>, ok)>>)
        /\ IF ok
           THEN /\ nextTok <= MaxTok
                /\ creds' = Upd(creds, h, Issued(nextTok, creds[h].refresh_token))
                /\ nextTok' = nextTok + 1
                /\ pc' = Upd(pc, h, "cap_build")
                /\ UNCHANGED exc
           ELSE /\ RaiseInCap(h, "RefreshError")
                /\ UNCHANGED <<creds, nextTok>>
    /\ UNCHANGED <<ev, escaped, local, cap, loaded, result, emails, todo,
                   tokenFile, descriptor>>

\* creds.refresh(Request())
GcRefresh(h) ==
    /\ pc[h] = "gc_refresh"
    /\ \E ok \in BOOLEAN :
        /\ Push(h, <<Call("refresh", <<>>, ok)>>)
        /\ IF ok
           THEN /\ nextTok <= MaxTok
                /\ creds' = Upd(creds, h, Issued(nextTok, creds[h].refresh_token))
                /\ nextTok' = nextTok + 1
                /\ pc' = Upd(pc, h, "gc_open")
                /\ UNCHANGED exc
           ELSE /\ RaiseInCap(h, "RefreshError")
                /\ UNCHANGED <<creds, nextTok>>
    /\ UNCHANGED <<ev, escaped, local, cap, loaded, result, emails, todo,
                   tokenFile, descriptor>>

\* the descriptor check and the interactive flow
GcFlow(h) ==
    /\ pc[h] = "gc_flow"
    /\ IF ~descriptor
       THEN /\ Push(h, <<Call("exists_descriptor", <<>>, FALSE)>>)
            /\ RaiseInCap(h, "FileNotFoundError")
            /\ UNCHANGED <<creds, nextTok>>
       ELSE \E ok \in BOOLEAN :
            /\ Push(h, <<Call("exists_descriptor", <<>>, TRUE),
                         Call("run_local_server", <<>>, ok)>>)
            /\ IF ok
               THEN /\ nextTok <= MaxTok
                    /\ creds' = Upd(creds, h, Issued(nextTok, TRUE))
                    /\ nextTok' = nextTok + 1
                    /\ pc' = Upd(pc, h, "gc_open")
                    /\ UNCHANGED exc
               ELSE /\ RaiseInCap(h, "FlowError")
                    /\ UNCHANGED <<creds, nextTok>>
    /\ UNCHANGED <<ev, escaped, local, cap, loaded, result, emails, todo,
                   tokenFile, descriptor>>

\* with open(token_file, 'wb') as token: the file is truncated
GcOpen(h) ==
    /\ pc[h] = "gc_open"
    /\ \E ok \in BOOLEAN :
        /\ Push(h, <<Call("open_wb", <<>>, ok)>>)
        /\ IF ok
           THEN /\ tokenFile' = [tokenFile EXCEPT ![TokenPath(cap[h])] = Truncated]
                /\ pc' = Upd(pc, h, "gc_dump")
                /\ UNCHANGED exc
           ELSE /\ RaiseInCap(h, "OSError")
                /\ UNCHANGED tokenFile
    /\ UNCHANGED <<ev, escaped, local, cap, creds, loaded, result, emails, todo,
                   descriptor, nextTok>>

\* pickle.dump(creds, token), the file is closed, and creds is returned
GcDump(h) ==
    /\ pc[h] = "gc_dump"
    /\ \E ok \in BOOLEAN :
        /\ Push(h, <<Call("pickle.dump", <<>>, ok)>>)
        /\ IF ok
           THEN /\ tokenFile' = [tokenFile EXCEPT ![TokenPath(cap[h])] = Holding(creds[h])]
                /\ pc' = Upd(pc, h, "cap_build")
                /\ UNCHANGED exc
           ELSE /\ RaiseInCap(h, "OSError")
                /\ UNCHANGED tokenFile
    /\ UNCHANGED <<ev, escaped, local, cap, creds, loaded, result, emails, todo,
                   descriptor, nextTok>>

\* the first call of each capability function after build
AfterBuild(c) ==
    CASE c = "read_emails" -> "re_list"
      [] c = "list_calendar_events" -> "lc_list"
      [] c = "create_calendar_event" -> "ce_insert"

\* service = build(...)
CapBuild(h) ==
    /\ pc[h] = "cap_build"
    /\ \E ok \in BOOLEAN :
        /\ Push(h, <<Call("build", <<>>, ok)>>)
        /\ IF ok
           THEN /\ pc' = Upd(pc, h, AfterBuild(cap[h]))
                /\ UNCHANGED exc
           ELSE RaiseInCap(h, "BuildError")
    /\ UNCHANGED <<ev, escaped, local, cap, creds, loaded, result, emails, todo,
                   tokenFile, descriptor, nextTok>>

EmailsResult(es) == [status |-> "success", count |-> Len(es), emails |-> es]

EventsResult(es) == [status |-> "success", count |-> Len(es), events |-> es]

ErrorResult(e) == [status |-> "error", message |-> e]

\* mutant: an empty response is reported as an error
ReListEmptyIsError(h) ==
    /\ pc[h] = "re_list"
    /\ \/ /\ Push(h, <<Call("messages.list", <<>>, FALSE)>>)
          /\ RaiseInCap(h, "HttpError")
          /\ UNCHANGED <<result, emails, todo>>
       \/ \E n \in 0..MaxItems :
          \* arg: the number of messages in the response
          /\ Push(h, <<Call("messages.list", <<n>>, TRUE)>>)
          /\ IF n = 0
             THEN /\ result' = Upd(result, h, ErrorResult("NoMessages"))
                  /\ pc' = Upd(pc, h, "cap_ret")
                  /\ UNCHANGED <<emails, todo>>
             ELSE /\ emails' = Upd(emails, h, <<>>)
                  /\ todo' = Upd(todo, h, n)
                  /\ pc' = Upd(pc, h, "re_get")
                  /\ UNCHANGED result
          /\ UNCHANGED exc
    /\ UNCHANGED <<ev, escaped, local, cap, creds, loaded,
                   tokenFile, descriptor, nextTok>>

\* read_emails: the list call and the empty case
ReList(h) ==
    /\ pc[h] = "re_list"
    /\ \/ /\ Push(h, <<Call("messages.list", <<>>, FALSE)>>)
          /\ RaiseInCap(h, "HttpError")
          /\ UNCHANGED <<result, emails, todo>>
       \/ \E n \in 0..MaxItems :
          \* arg: the number of messages in the response
          /\ Push(h, <<Call("messages.list", <<n>>, TRUE)>>)
          /\ IF n = 0
             THEN /\ result' = Upd(result, h, [status |-> "success", count |-> 0,
                                               emails |-> <<>>])
                  /\ pc' = Upd(pc, h, "cap_ret")
                  /\ UNCHANGED <<emails, todo>>
             ELSE /\ emails' = Upd(emails, h, <<>>)
                  /\ todo' = Upd(todo, h, n)
                  /\ pc' = Upd(pc, h, "re_get")
                  /\ UNCHANGED result
          /\ UNCHANGED exc
    /\ UNCHANGED <<ev, escaped, local, cap, creds, loaded,
                   tokenFile, descriptor, nextTok>>

\* the projection of one fetched message; a missing header falls back
Summary(i, headers) ==
    [id |-> i,
     subject |-> IF "Subject" \in headers THEN "subject" ELSE "No Subject",
     from |-> IF "From" \in headers THEN "sender" ELSE "Unknown"]

\* read_emails: one pass of the loop over messages
ReGet(h) ==
    /\ pc[h] = "re_get"
    /\ \/ /\ Push(h, <<Call("messages.get", <<>>, FALSE)>>)
          /\ RaiseInCap(h, "HttpError")
          /\ UNCHANGED <<result, emails, todo>>
       \/ \* the response has no 'payload'
          /\ Push(h, <<Call("messages.get", <<>>, TRUE)>>)
          /\ RaiseInCap(h, "KeyError")
          /\ UNCHANGED <<result, emails, todo>>
       \/ \E headers \in {{"Subject", "From"}, {}} :
          LET es == Append(emails[h], Summary(Len(emails[h]) + 1, headers))
          IN  /\ Push(h, <<Call("messages.get", <<>>, TRUE)>>)
              /\ emails' = Upd(emails, h, es)
              /\ todo' = Upd(todo, h, todo[h] - 1)
              /\ IF todo[h] = 1
                 THEN /\ result' = Upd(result, h, EmailsResult(es))
                      /\ pc' = Upd(pc, h, "cap_ret")
                 ELSE UNCHANGED <<result, pc>>
              /\ UNCHANGED exc
    /\ UNCHANGED <<ev, escaped, local, cap, creds, loaded,
                   tokenFile, descriptor, nextTok>>

\* the projection of one listed event
Formatted(i) == [id |-> i, summary |-> "summary", start |-> "start"]

\* list_calendar_events after build
LcList(h) ==
    /\ pc[h] = "lc_list"
    /\ \/ /\ Push(h, <<Call("events.list", <<>>, FALSE)>>)
          /\ RaiseInCap(h, "HttpError")
          /\ UNCHANGED result
       \/ \* an item of the response has no 'start'
          \E n \in 1..MaxItems :
          /\ Push(h, <<Call("events.list", <<n>>, TRUE)>>)
          /\ RaiseInCap(h, "KeyError")
          /\ UNCHANGED result
       \/ \E n \in 0..MaxItems :
          \* arg: the number of items in the response
          /\ Push(h, <<Call("events.list", <<n>>, TRUE)>>)
          /\ result' = Upd(result, h, EventsResult([i \in 1..n |-> Formatted(i)]))
          /\ pc' = Upd(pc, h, "cap_ret")
          /\ UNCHANGED exc
    /\ UNCHANGED <<ev, escaped, local, cap, creds, loaded, emails, todo,
                   tokenFile, descriptor, nextTok>>

\* create_calendar_event after build
CeInsert(h) ==
    /\ pc[h] = "ce_insert"
    /\ \/ /\ Push(h, <<Call("events.insert", <<>>, FALSE)>>)
          /\ RaiseInCap(h, "HttpError")
          /\ UNCHANGED result
       \/ \* the response has no 'id'
          /\ Push(h, <<Call("events.insert", <<>>, TRUE)>>)
          /\ RaiseInCap(h, "KeyError")
          /\ UNCHANGED result
       \/ /\ Push(h, <<Call("events.insert", <<>>, TRUE)>>)
          /\ result' = Upd(result, h, [status |-> "success", event_id |-> "id",
                                       event_link |-> "link"])
          /\ pc' = Upd(pc, h, "cap_ret")
          /\ UNCHANGED exc
    /\ UNCHANGED <<ev, escaped, local, cap, creds, loaded, emails, todo,
                   tokenFile, descriptor, nextTok>>

\* the exceptions the steps above raise, all subclasses of Exception
ExceptionKinds ==
    {"EOFError", "RefreshError", "FileNotFoundError", "FlowError", "OSError",
     "BuildError", "HttpError", "KeyError"}

\* mutant: except HttpError as e
CapCatchesHttpOnly(e) == e = "HttpError"

\* mutant: except (HttpError, RefreshError, KeyError) as e
CapCatchesApiErrors(e) == e \in {"HttpError", "RefreshError", "KeyError"}

\* except Exception as e
CapCatches(e) == e \in ExceptionKinds

\* where control goes when the capability function is left
CallerPc(kind, raised) ==
    IF kind = "command" THEN (IF raised THEN "c_except" ELSE "c_render") ELSE "done"

\* the except branch of the capability function
CapExcept(h) ==
    /\ pc[h] = "cap_except"
    /\ IF CapCatches(exc[h])
       THEN /\ result' = Upd(result, h, ErrorResult(exc[h]))
            /\ pc' = Upd(pc, h, "cap_ret")
            /\ UNCHANGED escaped
       ELSE /\ pc' = Upd(pc, h, CallerPc(ev[h].kind, TRUE))
            /\ escaped' = Upd(escaped, h, ev[h].kind # "command")
            /\ UNCHANGED result
    /\ UNCHANGED <<ev, trace, exc, local, cap, creds, loaded, emails, todo,
                   tokenFile, descriptor, nextTok>>

\* return await read_emails(...) / list_calendar_events(...) / create_calendar_event(...)
CapReturn(h) ==
    /\ pc[h] = "cap_ret"
    /\ pc' = Upd(pc, h, CallerPc(ev[h].kind, FALSE))
    /\ UNCHANGED <<ev, trace, exc, escaped, local, cap, creds, loaded, result, emails, todo,
                   tokenFile, descriptor, nextTok>>

(***************************************************************************)
(* Specifications                                                          *)
(***************************************************************************)
Quiet(h) == \A g \in Handlers \ {h} : pc[g] = "idle"

\* one event at a time: an event arrives when no other is being handled
Arrive == \E h \in Handlers : Quiet(h) /\ Receive(h, AllEvents)

\* 'emails' commands arrive while others are still being handled
ArriveConcurrently == \E h \in Handlers : Receive(h, EmailsCommands)

Refresh ==
    \/ \E h \in Handlers : GcLoad(h)
    \/ \E h \in Handlers : GcRefresh(h)
    \/ \E h \in Handlers : GcOpen(h)
    \/ \E h \in Handlers : GcDump(h)

Authorize == \E h \in Handlers : GcFlow(h)

ReadEmails ==
    \/ \E h \in Handlers : CapBuild(h)
    \/ \E h \in Handlers : ReList(h)
    \/ \E h \in Handlers : ReGet(h)
    \/ \E h \in Handlers : CapExcept(h)
    \/ \E h \in Handlers : CapReturn(h)

Calendar ==
    \/ \E h \in Handlers : LcList(h)
    \/ \E h \in Handlers : CeInsert(h)

Command ==
    \/ \E h \in Handlers : CommandAck(h)
    \/ \E h \in Handlers : CommandBody(h)
    \/ \E h \in Handlers : CommandRender(h)
    \/ \E h \in Handlers : CommandExcept(h)
    \/ \E h \in Handlers : Finish(h)

Conversation ==
    \/ \E h \in Handlers : MentionBody(h)
    \/ \E h \in Handlers : MentionQuery(h)
    \/ \E h \in Handlers : MentionReply(h)
    \/ \E h \in Handlers : MentionExcept(h)
    \/ \E h \in Handlers : HandleMessage(h)
    \/ \E h \in Handlers : MessageQuery(h)
    \/ \E h \in Handlers : MessageReply(h)
    \/ \E h \in Handlers : MessageExcept(h)
    \/ \E h \in Handlers : CommandQuery(h)
    \/ \E h \in Handlers : CommandReply(h)

Next == Arrive \/ Refresh \/ Authorize \/ ReadEmails \/ Calendar \/ Command \/ Conversation

Spec == Init /\ [][Next]_vars

NextRace == ArriveConcurrently \/ Refresh \/ ReadEmails \/ Command

\* the persisted Gmail credential holds a refresh token and has expired or may
\* expire
InitRace ==
    /\ Init
    /\ descriptor
    /\ \E c \in InitialCreds :
        /\ c.token /\ c.refresh_token
        /\ tokenFile["gmail_token.pickle"] = Holding(c)

SpecRace == InitRace /\ [][NextRace]_vars

(***************************************************************************)
(* Properties                                                              *)
(***************************************************************************)
Last(q) == q[Len(q)]

InTrace(h, op) == \E i \in 1..Len(trace[h]) : trace[h][i].op = op

\* C1: every failure inside read_emails, list_calendar_events or
\* create_calendar_event comes back as {status: error, message: str(e)};
\* nothing propagates to the caller; every returned mapping has a status.
C1_FailuresBecomeErrorResults ==
    \A h \in Handlers :
        /\ pc[h] = "cap_ret" =>
            /\ "status" \in DOMAIN result[h]
            /\ result[h].status \in {"success", "error"}
            /\ exc[h] # NoneVal => result[h] = [status |-> "error", message |-> exc[h]]
            /\ exc[h] = NoneVal => result[h].status = "success"
        /\ pc[h] = "c_except" => exc[h] \notin ExceptionKinds
        /\ ev[h].kind = "schedule_event" => ~escaped[h]

C1_Witness ==
    \E h \in Handlers :
        /\ pc[h] = "cap_ret"
        /\ cap[h] = "create_calendar_event"
        /\ exc[h] = "KeyError"
        /\ result[h] = [status |-> "error", message |-> "KeyError"]

DispatcherKinds == {"app_mention", "message", "command"}

\* C2: no exception escapes a dispatcher handler to the host, in particular not
\* one raised by say, the say of the catch-all branch included.
C2_SayFailureNeverEscapes ==
    \A h \in Handlers :
        (ev[h].kind \in DispatcherKinds /\ trace[h] # <<>> /\ Last(trace[h]).op = "say")
            => ~escaped[h]

\* C3: for a slash command, ack is the first step, before the parse, before any
\* capability or query call and before any reply, and it is called exactly once
\* whatever fails later.
C3_AckFirstAndOnce ==
    \A h \in Handlers :
        ev[h].kind = "command" =>
            /\ pc[h] # "c_ack" =>
                /\ trace[h] # <<>>
                /\ trace[h][1].op = "ack"
            /\ \A i \in 2..Len(trace[h]) :
                /\ trace[h][i].op # "ack"
                /\ trace[h][1].ok
            /\ (local[h] # <<>> \/ cap[h] # NoneVal \/ result[h] # NoResult) =>
                trace[h][1] = Call("ack", <<>>, TRUE)

C3_Witness ==
    \E h \in Handlers :
        /\ ev[h].kind = "command"
        /\ pc[h] = "done"
        /\ escaped[h]
        /\ Len(trace[h]) > 3
        /\ trace[h][1] = Call("ack", <<>>, TRUE)
        /\ InTrace(h, "read_recent_emails")

\* the branch of the slash command that an outbound call belongs to
BranchOf(c) ==
    CASE c.op = "say" /\ c.msg = "help" -> "help"
      [] c.op = "read_recent_emails" -> "emails"
      [] c.op = "get_calendar_events" -> "calendar"
      [] c.op = "simple_query" -> "query"
      [] OTHER -> "none"

BranchCalls(h) == {i \in 1..Len(trace[h]) : BranchOf(trace[h][i]) # "none"}

\* the command whose argument text is t is routed as the text u says
RoutedAs(h, u) ==
    LET c == trace[h][2]
    IN  /\ BranchCalls(h) = {2}
        /\ BranchOf(c) = (IF u = <<>> THEN "help"
                          ELSE IF Lower(u) = EmailsLc THEN "emails"
                          ELSE IF Lower(u) = CalendarLc THEN "calendar"
                          ELSE "query")
        /\ BranchOf(c) = "emails" => c.arg = <<"5", "is:unread">>
        /\ BranchOf(c) = "calendar" => c.arg = <<"5">>
        /\ BranchOf(c) = "query" => c.arg = u

\* C4 as claimed: the branch is chosen by the argument text itself (exact match,
\* ignoring case only) and any other text is forwarded verbatim.
C4_RoutedByExactText ==
    \A h \in Handlers :
        (ev[h].kind = "command" /\ Len(trace[h]) >= 2) => RoutedAs(h, ev[h].text)

\* the first position of t that holds no whitespace (Len(t) + 1 if none does)
TrimStart(t) ==
    CHOOSE i \in 1..Len(t) + 1 :
        /\ \A k \in 1..i - 1 : t[k] \in Whitespace
        /\ i <= Len(t) => t[i] \notin Whitespace

\* the last position of t that holds no whitespace (0 if none does)
TrimEnd(t) ==
    CHOOSE j \in 0..Len(t) :
        /\ \A k \in j + 1..Len(t) : t[k] \in Whitespace
        /\ j >= 1 => t[j] \notin Whitespace

\* t without its leading and trailing whitespace
Trimmed(t) == SubSeq(t, TrimStart(t), TrimEnd(t))

\* C4 amended: the branch is chosen by the argument text with its leading and
\* trailing whitespace removed: empty gives help, 'emails' / 'calendar' ignoring
\* case give the capability calls with limit 5, anything else is forwarded,
\* trimmed, to the generic query; exactly one branch is taken.
C4_RoutedByTrimmedText ==
    \A h \in Handlers :
        (ev[h].kind = "command" /\ Len(trace[h]) >= 2) => RoutedAs(h, Trimmed(ev[h].text))

C4_Witness ==
    \E h \in Handlers :
        /\ ev[h].kind = "command"
        /\ ev[h].text = Sp \o EmailsUc
        /\ Len(trace[h]) >= 2
        /\ trace[h][2] = Call("read_recent_emails", <<"5", "is:unread">>, TRUE)

\* no subtype, no bot_id, channel type 'im'
Accepted(e) == e.subtype = NoneVal /\ e.bot_id = NoneVal /\ e.channel_type = "im"

\* the text was forwarded verbatim and the last call is an unthreaded say
ForwardedAndAnswered(h) ==
    /\ Len(trace[h]) >= 2
    /\ trace[h][1].op = "simple_query"
    /\ trace[h][1].arg = ev[h].text
    /\ \A i \in 2..Len(trace[h]) : trace[h][i].op # "simple_query"
    /\ Last(trace[h]).op = "say"
    /\ \A i \in 1..Len(trace[h]) : trace[h][i].thread = NoneVal

\* C5 as claimed: a plain message is accepted iff it has no subtype, no bot_id and
\* channel type 'im'; every accepted one is forwarded verbatim and answered
\* unthreaded, every other one is dropped with no outbound call.
C5_EveryAcceptedForwarded ==
    \A h \in Handlers :
        (ev[h].kind = "message" /\ pc[h] = "done") =>
            IF Accepted(ev[h]) THEN ForwardedAndAnswered(h) ELSE trace[h] = <<>>

\* C5 amended: as claimed for accepted events whose text is not empty; an accepted
\* event with empty text is dropped with no outbound call like the others.
C5_AcceptedNonEmptyForwarded ==
    \A h \in Handlers :
        (ev[h].kind = "message" /\ pc[h] = "done") =>
            IF Accepted(ev[h]) /\ ev[h].text # <<>>
            THEN ForwardedAndAnswered(h)
            ELSE trace[h] = <<>>

C5_Witness ==
    \E h \in Handlers :
        /\ ev[h].kind = "message"
        /\ pc[h] = "done"
        /\ Accepted(ev[h])
        /\ trace[h] = <<Call("simple_query", Sp \o Hi, TRUE),
                        Say("response", Sp \o Hi, NoneVal, TRUE)>>

\* the outbound steps of a mention when nothing raises
MentionSteps(e) ==
    LET c == CleanText(e.text)
    IN  IF c = <<>>
        THEN <<Say("greeting", <<>>, NoneVal, TRUE)>>
        ELSE <<Say("processing", <<>>, e.ts, TRUE),
               Call("simple_query", c, TRUE),
               Say("response", c, e.ts, TRUE)>>

\* C6: a mention with empty cleaned text gets the greeting as its one reply and no
\* query; otherwise the steps are the threaded 'processing' say, the query with the
\* cleaned text, the threaded say of the result, in this order, none twice, all
\* three when none raises; a step that raises ends them (log and apology follow).
C6_MentionStepsInOrder ==
    \A h \in Handlers :
        ev[h].kind = "app_mention" =>
            LET steps == MentionSteps(ev[h])
                tr == trace[h]
            IN  /\ exc[h] = NoneVal =>
                    /\ Len(tr) <= Len(steps)
                    /\ tr = SubSeq(steps, 1, Len(tr))
                /\ (pc[h] = "done" /\ exc[h] = NoneVal) => tr = steps
                /\ exc[h] # NoneVal =>
                    \E k \in 1..Len(steps) :
                        /\ Len(tr) \in {k, k + 2}
                        /\ SubSeq(tr, 1, k - 1) = SubSeq(steps, 1, k - 1)
                        /\ tr[k] = [steps[k] EXCEPT !.ok = FALSE]
                        /\ Len(tr) = k + 2 =>
                            /\ tr[k + 1].op = "logger.error"
                            /\ tr[k + 2].op = "say"
                            /\ tr[k + 2].msg = "apology"
                /\ CleanText(ev[h].text) = <<>> => ~InTrace(h, "simple_query")

C6_Witness ==
    \E h \in Handlers :
        /\ ev[h].kind = "app_mention"
        /\ pc[h] = "done"
        /\ exc[h] = NoneVal
        /\ trace[h] = <<Say("processing", <<>>, "t1", TRUE),
                        Call("simple_query", Hi, TRUE),
                        Say("response", Hi, "t1", TRUE)>>

\* the text after its leading mention token
AfterLeadingMention(t) == SubSeq(t, MatchEnd(t, 1) + 1, Len(t))

\* C7: the cleaned text of a mention is the text without its leading mention token,
\* trimmed; a mention token later in the text stays.
C7_OnlyLeadingMentionRemoved ==
    \A h \in Handlers :
        (ev[h].kind = "app_mention" /\ pc[h] # "m_body" /\ MatchEnd(ev[h].text, 1) > 0)
            => local[h] = Strip(AfterLeadingMention(ev[h].text))

CannotRefresh(h) ==
    /\ loaded[h] # NotLoaded
    /\ \/ loaded[h] = NoneCreds
       \/ /\ ~(loaded[h].token /\ ~loaded[h].expired)
          /\ ~(loaded[h].expired /\ loaded[h].refresh_token)

\* h has loaded a credential that is expired and holds a refresh token
LoadedRefreshable(h) ==
    loaded[h] # NotLoaded /\ loaded[h].expired /\ loaded[h].refresh_token

\* C9: with no refresh possible and no descriptor file the call raises the
\* descriptor-missing error (FileNotFoundError, the spec's ConfigurationError),
\* starts no interactive flow and leaves the token file as it was; with an expired
\* credential that holds a refresh token it refreshes and never looks for the
\* descriptor.
C9_DescriptorOnlyWithoutRefresh ==
    \A h \in Handlers :
        /\ (CannotRefresh(h) /\ ~descriptor /\ pc[h] # "gc_flow") =>
            /\ pc[h] = "cap_except" => exc[h] = "FileNotFoundError"
            /\ pc[h] # "cap_except" => result[h] = ErrorResult("FileNotFoundError")
            /\ ~InTrace(h, "refresh")
            /\ ~InTrace(h, "run_local_server")
            /\ ~InTrace(h, "open_wb")
            /\ ~InTrace(h, "pickle.dump")
            /\ tokenFile[TokenPath(cap[h])] =
                   (IF loaded[h] = NoneCreds THEN Absent ELSE Holding(loaded[h]))
        /\ CannotRefresh(h) => ~InTrace(h, "refresh")
        /\ LoadedRefreshable(h) =>
            /\ ~InTrace(h, "exists_descriptor")
            /\ ~InTrace(h, "run_local_server")
            /\ pc[h] # "gc_flow"
            /\ pc[h] # "gc_refresh" => InTrace(h, "refresh")

C9_Witness ==
    \E h \in Handlers :
        /\ CannotRefresh(h)
        /\ loaded[h] # NoneCreds
        /\ ~descriptor
        /\ pc[h] = "cap_ret"
        /\ result[h] = [status |-> "error", message |-> "FileNotFoundError"]

\* C10: when handlers acquire the credential of one scope concurrently, each of
\* them gets a credential: none reads the token file empty or partly written
\* while another one is writing it.
C10_NoHandlerReadsIncompleteFile ==
    \A h, g \in Handlers :
        ~(h # g /\ pc[g] = "gc_dump" /\ pc[h] = "cap_except" /\ exc[h] = "EOFError")

\* the command handlers that took the 'emails' or the 'calendar' branch
ListCommand(h) ==
    ev[h].kind = "command" /\ cap[h] \in {"read_emails", "list_calendar_events"}

SayCalls(h) == {i \in 1..Len(trace[h]) : trace[h][i].op = "say"}

\* the reply is the bulleted list of the returned items, one line each
IsItemList(h, c) ==
    LET r == result[h]
    IN  /\ r.status = "success" /\ r.count > 0
        /\ Len(c.arg) = r.count
        /\ IF cap[h] = "read_emails"
           THEN /\ c.msg = "email_list"
                /\ \A i \in 1..r.count :
                    c.arg[i] = <<r.emails[i].subject, r.emails[i].from>>
           ELSE /\ c.msg = "event_list"
                /\ \A i \in 1..r.count :
                    c.arg[i] = <<r.events[i].summary, r.events[i].start>>

\* the reply is the fixed 'none found' message of the branch
IsNoneFound(h, c) ==
    /\ result[h].status = "error" \/ result[h].count = 0
    /\ c.msg = (IF cap[h] = "read_emails" THEN "no_emails" ELSE "no_events")
    /\ c.arg = <<>>

\* C11: an 'emails' or 'calendar' command says nothing before the capability
\* function has returned; its first say is the bulleted list (one line per item)
\* for a success with nonzero count and the fixed 'none found' message for a
\* success with zero count or an error; when that say is posted it is the only
\* reply, and a finished command has posted exactly one reply. The apology is
\* said only after the rendering say itself raised, and carries that Slack
\* error, never the message of the capability's error result.
C11_OneRenderedReply ==
    \A h \in Handlers : ListCommand(h) =>
        /\ result[h] = NoResult => SayCalls(h) = {}
        /\ \A i \in SayCalls(h) :
            LET c == trace[h][i]
            IN  /\ c.thread = NoneVal
                /\ \/ /\ \A j \in SayCalls(h) : i <= j
                      /\ IsItemList(h, c) \/ IsNoneFound(h, c)
                   \/ /\ c.msg = "apology"
                      /\ c.arg = <<"SlackApiError">>
                      /\ i >= 3
                      /\ trace[h][i - 2].op = "say"
                      /\ ~trace[h][i - 2].ok
                      /\ trace[h][i - 2].msg # "apology"
                      /\ trace[h][i - 1] = Log("SlackApiError")
        /\ Cardinality({i \in SayCalls(h) : trace[h][i].ok}) <= 1
        /\ \A i \in SayCalls(h) :
            (trace[h][i].ok /\ trace[h][i].msg # "apology") => SayCalls(h) = {i}
        /\ (pc[h] = "done" /\ ~escaped[h]) =>
            Cardinality({i \in SayCalls(h) : trace[h][i].ok}) = 1

C11_Witness ==
    \E h \in Handlers :
        /\ ListCommand(h)
        /\ pc[h] = "done"
        /\ result[h].status = "error"
        /\ Last(trace[h]) = Say("no_emails", <<>>, NoneVal, TRUE)

\* the descriptor check of h's call found no credentials.json
DescriptorMissing(h) ==
    \E i \in 1..Len(trace[h]) : trace[h][i] = Call("exists_descriptor", <<>>, FALSE)

\* the handler boundary has logged e and said the apology that carries it
LoggedAndApologised(h, e) ==
    \E i \in 1..Len(trace[h]) - 1 :
        /\ trace[h][i] = Log(e)
        /\ trace[h][i + 1].op = "say"
        /\ trace[h][i + 1].msg = "apology"
        /\ trace[h][i + 1].arg = <<e>>

\* C12 as stated: a command that failed on the missing descriptor ends with the
\* failure logged and the apology carrying its message said.
C12_DescriptorFailureIsApologised ==
    \A h \in Handlers :
        (ListCommand(h) /\ DescriptorMissing(h) /\ pc[h] = "done") =>
            LoggedAndApologised(h, "FileNotFoundError")

\* C12 amended: a missing descriptor during an 'emails' or 'calendar' command is
\* caught inside the capability function and returned as the error result; the
\* handler boundary is not reached by it: the failure is never logged, no say
\* carries its message, and the reply the handler attempts first is the fixed
\* 'none found' message of the branch.
C12_DescriptorFailureIsAbsorbed ==
    \A h \in Handlers : (ListCommand(h) /\ DescriptorMissing(h)) =>
        /\ pc[h] \in {"cap_except", "cap_ret", "c_render", "c_except", "done"}
        /\ pc[h] # "cap_except" => result[h] = ErrorResult("FileNotFoundError")
        /\ pc[h] = "c_except" => exc[h] = "SlackApiError"
        /\ \A i \in 1..Len(trace[h]) :
            /\ trace[h][i] # Log("FileNotFoundError")
            /\ trace[h][i].op = "say" => trace[h][i].arg # <<"FileNotFoundError">>
        /\ pc[h] \in {"c_except", "done"} =>
            \E i \in SayCalls(h) :
                /\ \A j \in SayCalls(h) : i <= j
                /\ trace[h][i].msg =
                       (IF cap[h] = "read_emails" THEN "no_emails" ELSE "no_events")

C12_Witness ==
    \E h \in Handlers :
        /\ ListCommand(h)
        /\ DescriptorMissing(h)
        /\ pc[h] = "done"
        /\ ~escaped[h]
        /\ Last(trace[h]).op = "say"
        /\ Last(trace[h]).msg = "no_events"
        /\ Last(trace[h]).ok

\* h is in, or has returned from, read_emails or list_calendar_events
ListCall(h) == cap[h] \in {"read_emails", "list_calendar_events"}

ListKey(h) == IF cap[h] = "read_emails" THEN "emails" ELSE "events"

SuccessShape(h) ==
    LET r == result[h]
    IN  /\ DOMAIN r = {"status", "count", ListKey(h)}
        /\ r.status = "success"
        /\ r.count = Len(r[ListKey(h)])

ErrorShape(h) ==
    /\ DOMAIN result[h] = {"status", "message"}
    /\ result[h].status = "error"

\* the list call of h succeeded and its response held n items
Listed(h, n) ==
    \E i \in 1..Len(trace[h]) :
        /\ trace[h][i].op \in {"messages.list", "events.list"}
        /\ trace[h][i].ok
        /\ trace[h][i].arg = <<n>>

\* a per-message detail call of h raised, or its response could not be read
DetailFailed(h) ==
    \/ exc[h] \in {"HttpError", "KeyError"} /\ Last(trace[h]).op = "messages.get"
    \/ \E i \in 1..Len(trace[h]) :
        trace[h][i].op = "messages.get" /\ ~trace[h][i].ok

\* C13: every result of read_emails and list_calendar_events is either the
\* success mapping, with exactly the keys status, count and emails (events) and
\* count the length of the list, or the error mapping, with exactly the keys
\* status and message. A response with zero items gives success with count 0
\* and an empty list, and is returned at once; a failed detail call of
\* read_emails gives the error mapping, whatever was collected before it.
C13_ResultShapes ==
    \A h \in Handlers : ListCall(h) =>
        /\ result[h] # NoResult => SuccessShape(h) \/ ErrorShape(h)
        /\ Listed(h, 0) =>
            /\ pc[h] \notin {"re_get", "cap_except"}
            /\ SuccessShape(h)
            /\ result[h].count = 0
            /\ result[h][ListKey(h)] = <<>>
        /\ \A n \in 1..MaxItems :
            (Listed(h, n) /\ result[h] # NoResult /\ result[h].status = "success")
                => result[h].count = n
        /\ InTrace(h, "messages.get") =>
            /\ pc[h] \in {"re_get", "cap_except"} => result[h] = NoResult
            /\ (DetailFailed(h) /\ pc[h] \notin {"re_get", "cap_except"}) =>
                /\ ErrorShape(h)
                /\ result[h].message \in {"HttpError", "KeyError"}

\* the second detail call failed after the first message had been collected
C13_Witness ==
    \E h \in Handlers :
        /\ cap[h] = "read_emails"
        /\ pc[h] = "cap_ret"
        /\ Len(emails[h]) = 1
        /\ DetailFailed(h)
        /\ result[h] = ErrorResult("HttpError")

====
